---- MODULE Spec2Model ----
(***************************************************************************)
(* Model of the YouTube transcript HTTP service (src/app.py).              *)
(*                                                                         *)
(* Strings of the program are TLA+ strings; a character is a string of     *)
(* length one.  Two specifications are given:                              *)
(*   Spec         the two request handlers, split at the blocking call to  *)
(*                the upstream provider, whose outcome is the environment's *)
(*   SpecExtract  extract_video_id applied to a URL drawn from UrlInputs    *)
(***************************************************************************)
EXTENDS Integers, Sequences, FiniteSets, TLC

VARIABLES
    pc,              \* "idle" | "waiting" (blocked in the upstream call) | "done"
    endpoint,        \* route being served: "transcript" | "languages" | "none"
    has_url,         \* 'url' is present in request.args
    video_url,       \* request.args.get('url') when present
    language,        \* request.args.get('language', 'en')
    format_type,     \* request.args.get('format', 'json')
    video_id,        \* the handler's local video_id; Unbound until assigned
    upstream_calls,  \* upstream provider calls issued by this request
    upstream_result, \* outcome of the upstream call, NoResult until it ends
    num_responses,   \* responses returned by this request
    status,          \* HTTP status of the response
    response,        \* JSON body of the response
    xpc,             \* SpecExtract: "ready" | "returned"
    arg_url,         \* SpecExtract: the argument of extract_video_id
    ret              \* SpecExtract: its return value

hvars == <<pc, endpoint, has_url, video_url, language, format_type, video_id,
           upstream_calls, upstream_result, num_responses, status, response>>
xvars == <<xpc, arg_url, ret>>
vars == <<pc, endpoint, has_url, video_url, language, format_type, video_id,
          upstream_calls, upstream_result, num_responses, status, response,
          xpc, arg_url, ret>>

(***************************************************************************)
(* Bounds of the model.                                                    *)
(***************************************************************************)
MaxSegs == 2      \* longest segment sequence the upstream call returns
MaxTime == 1      \* largest start / duration of a segment
MaxParts == 2     \* most fragments an upstream failure message is made of
MaxTracks == 2    \* longest track listing the upstream call returns

(***************************************************************************)
(* Python values.                                                          *)
(***************************************************************************)
None == "None"
Unbound == "<unbound>"
NoResult == [kind |-> "none"]
NoResponse == [none |-> TRUE]

Min(S) == CHOOSE m \in S : \A n \in S : m <= n

Char(s, i) == SubSeq(s, i, i)

(***************************************************************************)
(* extract_video_id: the character class [0-9A-Za-z_-], the length 11 of   *)
(* the captured group and the five patterns, each a list of alternative    *)
(* literal prefixes followed by the group.                                 *)
(***************************************************************************)
IdChars ==
    {"0","1","2","3","4","5","6","7","8","9",
     "A","B","C","D","E","F","G","H","I","J","K","L","M",
     "N","O","P","Q","R","S","T","U","V","W","X","Y","Z",
     "a","b","c","d","e","f","g","h","i","j","k","l","m",
     "n","o","p","q","r","s","t","u","v","w","x","y","z",
     "_","-"}

IdLen == 11

patterns ==
    << <<"v=", "/">>,
       <<"embed/">>,
       <<"watch?v=">>,
       <<"youtu.be/">>,
       <<"youtube.com/shorts/">> >>

\* the literal p occurs in s at position i
LiteralAt(s, i, p) ==
    /\ i + Len(p) - 1 <= Len(s)
    /\ SubSeq(s, i, i + Len(p) - 1) = p

\* ([0-9A-Za-z_-]{11}) matches in s at position j
GroupAt(s, j) ==
    /\ j + IdLen - 1 <= Len(s)
    /\ \A k \in j..(j + IdLen - 1) : Char(s, k) \in IdChars

\* the alternatives of pattern pat that match in s at position i
AltsAt(pat, s, i) ==
    {a \in 1..Len(pat) : LiteralAt(s, i, pat[a]) /\ GroupAt(s, i + Len(pat[a]))}

\* the positions of s where pattern pat matches (a trailing .* matches anything)
MatchPositions(pat, s) == {i \in 1..Len(s) : AltsAt(pat, s, i) # {}}

\* re.search(pattern, url): the leftmost match, its first alternative, group 1
re_search(pat, s) ==
    LET positions == MatchPositions(pat, s)
    IN  IF positions = {} THEN None
        ELSE LET i == Min(positions)
                 a == Min(AltsAt(pat, s, i))
                 j == i + Len(pat[a])
             IN  SubSeq(s, j, j + IdLen - 1)

\* for pattern in patterns: the group of the first pattern that matches, else None
RECURSIVE FirstMatch(_, _, _)
FirstMatch(pats, k, url) ==
    IF k > Len(pats) THEN None
    ELSE LET match == re_search(pats[k], url)
         IN  IF match # None THEN match ELSE FirstMatch(pats, k + 1, url)

\* a slip that tries the specific patterns before the generic one
extract_video_id_reordered(url) ==
    FirstMatch(<<patterns[2], patterns[3], patterns[4], patterns[5], patterns[1]>>, 1, url)

extract_video_id(url) == FirstMatch(patterns, 1, url)

(***************************************************************************)
(* URLs given to extract_video_id under SpecExtract.                       *)
(***************************************************************************)
Ids == {"dQw4w9WgXcQ", "a_b-c_d-e_f"}
ShortSegment == "dQw4w9WgXc"       \* 10 characters
LongSegment == "dQw4w9WgXcQZ"      \* 12 characters

YouTubeHosts == {"https://www.youtube.com", "https://m.youtube.com", "youtube.com"}
ParamsBefore == {"", "t=10&", "feature=share&", "list=PLAAAAAAAAAAA&", "rv=AAAAAAAAAAA&"}
TextAfter == {"", "&t=10", "?si=abc", "/extra/path", "&v=BBBBBBBBBBB", "#t=/BBBBBBBBBBB"}

WatchUrls(x) ==
    {h \o "/watch?" \o b \o "v=" \o x \o a : h \in YouTubeHosts, b \in ParamsBefore,
                                             a \in TextAfter \ {"?si=abc"}}
EmbedUrls(x) == {h \o "/embed/" \o x \o a : h \in YouTubeHosts, a \in TextAfter}
ShortLinkUrls(x) == {"https://youtu.be/" \o x \o a : a \in TextAfter}
ShortsUrls(x) == {h \o "/shorts/" \o x \o a : h \in YouTubeHosts, a \in TextAfter}
BareUrls(x) == {h \o "/" \o x \o a : h \in YouTubeHosts, a \in TextAfter}

\* the recognized URL shapes carrying the identifier x
RecognizedUrls(x) ==
    WatchUrls(x) \cup EmbedUrls(x) \cup ShortLinkUrls(x) \cup ShortsUrls(x) \cup BareUrls(x)

NonYouTubeUrls ==
    {"https://example.com/", "https://example.com/abcdefghijk", "https://vimeo.com/123456789",
     "https://vimeo.com/12345678901", "not a url", "ftp://files.example.org/a/b.txt",
     "https://my-long-hostname.example.com/", "https://example.com/?v=dQw4w9WgXcQ"}

WrongLengthUrls ==
    {p \o s \o a : p \in {"https://www.youtube.com/watch?v=", "https://youtu.be/",
                          "https://www.youtube.com/embed/", "https://www.youtube.com/shorts/"},
                   s \in {ShortSegment, LongSegment},
                   a \in {"", "&t=10", "?si=abc"}}

AmbiguousUrls ==
    {"https://www.youtube.com/embed/dQw4w9WgXcQ?v=BBBBBBBBBBB",
     "https://www.youtube.com/watch?v=BBBBBBBBBBB&next=/embed/dQw4w9WgXcQ",
     "https://youtube-nocookie.com/embed/dQw4w9WgXcQ",
     "https://youtube-nocookie.com/embed/dQw4w9WgXcQ?v=BBBBBBBBBBB"}

UrlInputs ==
    {""} \cup NonYouTubeUrls \cup WrongLengthUrls \cup AmbiguousUrls
         \cup UNION {RecognizedUrls(x) : x \in Ids}

(***************************************************************************)
(* Inputs of the handlers under Spec: query strings, upstream results.     *)
(***************************************************************************)
HandlerUrls ==
    {"", "not a url", "https://www.youtube.com/watch?v=", "https://youtu.be/dQw4w9WgXc",
     "https://www.youtube.com/watch?v=dQw4w9WgXcQ", "https://example.com/abcdefghijk"}

\* request.args as far as 'url' goes: absent, or present with a value
Queries ==
    {[has_url |-> FALSE, url |-> None]} \cup {[has_url |-> TRUE, url |-> u] : u \in HandlerUrls}

Languages == {"en", "de"}
Formats == {"json", "text", "srt"}

Times == 0..MaxTime
SegTexts == {"", "big world", " a\nb\t"}
Segments == [text : SegTexts, start : Times, duration : Times]

SeqsUpTo(S, n) == UNION {[1..k -> S] : k \in 0..n}

TranscriptLists == SeqsUpTo(Segments, MaxSegs)

Tracks ==
    {[language |-> "English", language_code |-> "en", is_generated |-> FALSE, is_translatable |-> TRUE],
     [language |-> "English (auto-generated)", language_code |-> "en", is_generated |-> TRUE, is_translatable |-> TRUE],
     [language |-> "German", language_code |-> "de", is_generated |-> FALSE, is_translatable |-> FALSE]}

TrackLists == SeqsUpTo(Tracks, MaxTracks)

MsgFragments ==
    {"No transcripts were found", "Video unavailable", "Subtitles are disabled",
     " in your country", "video unavailable", "Could not retrieve a transcript: "}

RECURSIVE Concat(_)
Concat(parts) == IF parts = <<>> THEN "" ELSE Head(parts) \o Concat(Tail(parts))

\* str(e) of the exception the upstream call raises
ErrorMessages == {Concat(parts) : parts \in SeqsUpTo(MsgFragments, MaxParts)}

(***************************************************************************)
(* String helpers of the handlers.                                         *)
(***************************************************************************)
\* sub in s
Contains(s, sub) ==
    \E i \in 1..(Len(s) - Len(sub) + 1) : SubSeq(s, i, i + Len(sub) - 1) = sub

Whitespace == {" ", "\n", "\t", "\r"}

\* len(s.split()): the maximal runs of non-whitespace characters of s
SplitLen(s) ==
    Cardinality({i \in 1..Len(s) :
        /\ Char(s, i) \notin Whitespace
        /\ (i = 1 \/ Char(s, i - 1) \in Whitespace)})

\* TextFormatter().format_transcript: the segment texts joined with a newline
RECURSIVE format_transcript(_)
format_transcript(transcript_list) ==
    IF transcript_list = <<>> THEN ""
    ELSE IF Len(transcript_list) = 1 THEN transcript_list[1].text
    ELSE transcript_list[1].text \o "\n" \o format_transcript(Tail(transcript_list))

RECURSIVE SumWords(_)
SumWords(transcript_list) ==
    IF transcript_list = <<>> THEN 0
    ELSE SplitLen(Head(transcript_list).text) + SumWords(Tail(transcript_list))

\* a slip that counts the segments instead of their words
word_count_segments(transcript_list) == Len(transcript_list)

\* json mode: sum(len(item['text'].split()) for item in transcript_list)
word_count(transcript_list) == SumWords(transcript_list)

\* a slip that takes the first segment instead of the last
total_duration_first(transcript_list) ==
    IF transcript_list # <<>>
    THEN transcript_list[1].start + transcript_list[1].duration
    ELSE 0

\* transcript_list[-1]['start'] + transcript_list[-1]['duration'] if transcript_list else 0
total_duration(transcript_list) ==
    IF transcript_list # <<>>
    THEN transcript_list[Len(transcript_list)].start + transcript_list[Len(transcript_list)].duration
    ELSE 0

\* text mode: the same expression, written inline in the response
duration_seconds_text(transcript_list) ==
    IF transcript_list # <<>>
    THEN transcript_list[Len(transcript_list)].start + transcript_list[Len(transcript_list)].duration
    ELSE 0

text_response(transcript_list) ==
    [success |-> TRUE,
     video_id |-> video_id,
     language |-> language,
     format |-> "text",
     transcript |-> format_transcript(transcript_list),
     word_count |-> SplitLen(format_transcript(transcript_list)),
     duration_seconds |-> duration_seconds_text(transcript_list)]

json_response(transcript_list) ==
    [success |-> TRUE,
     video_id |-> video_id,
     language |-> language,
     format |-> "json",
     transcript |-> transcript_list,
     word_count |-> word_count(transcript_list),
     duration_seconds |-> total_duration(transcript_list),
     segments_count |-> Len(transcript_list)]

\* video_id if 'video_id' in locals() else None
video_id_or_None == IF video_id # Unbound THEN video_id ELSE None

\* a slip that tests "Video unavailable" before "No transcripts were found"
error_response_swapped(error_message) ==
    IF Contains(error_message, "Video unavailable") THEN
        [status |-> 404,
         body |-> [success |-> FALSE,
                   error |-> "Video is unavailable or private",
                   error_type |-> "unavailable",
                   video_id |-> video_id_or_None]]
    ELSE IF Contains(error_message, "No transcripts were found") THEN
        [status |-> 404,
         body |-> [success |-> FALSE,
                   error |-> "No transcripts available for this video",
                   error_type |-> "no_transcript",
                   video_id |-> video_id_or_None,
                   debug_info |-> "This video may not have captions enabled or may be restricted in this region"]]
    ELSE IF Contains(error_message, "Subtitles are disabled") THEN
        [status |-> 404,
         body |-> [success |-> FALSE,
                   error |-> "Subtitles are disabled for this video",
                   error_type |-> "subtitles_disabled",
                   video_id |-> video_id_or_None,
                   debug_info |-> "Try a different video with captions enabled"]]
    ELSE
        [status |-> 500,
         body |-> [success |-> FALSE,
                   error |-> error_message,
                   error_type |-> "unknown",
                   debug_info |-> "This might be a regional restriction or server IP blocking issue"]]

\* the except branch of get_transcript
error_response(error_message) ==
    IF Contains(error_message, "No transcripts were found") THEN
        [status |-> 404,
         body |-> [success |-> FALSE,
                   error |-> "No transcripts available for this video",
                   error_type |-> "no_transcript",
                   video_id |-> video_id_or_None,
                   debug_info |-> "This video may not have captions enabled or may be restricted in this region"]]
    ELSE IF Contains(error_message, "Video unavailable") THEN
        [status |-> 404,
         body |-> [success |-> FALSE,
                   error |-> "Video is unavailable or private",
                   error_type |-> "unavailable",
                   video_id |-> video_id_or_None]]
    ELSE IF Contains(error_message, "Subtitles are disabled") THEN
        [status |-> 404,
         body |-> [success |-> FALSE,
                   error |-> "Subtitles are disabled for this video",
                   error_type |-> "subtitles_disabled",
                   video_id |-> video_id_or_None,
                   debug_info |-> "Try a different video with captions enabled"]]
    ELSE
        [status |-> 500,
         body |-> [success |-> FALSE,
                   error |-> error_message,
                   error_type |-> "unknown",
                   debug_info |-> "This might be a regional restriction or server IP blocking issue"]]

(***************************************************************************)
(* The handlers.  Each runs from the request to the blocking upstream call *)
(* (or to a 400 response), and from the call's outcome to the response.    *)
(***************************************************************************)
Respond(code, body) ==
    /\ status' = code
    /\ response' = body
    /\ num_responses' = num_responses + 1
    /\ pc' = "done"

CallUpstream ==
    /\ upstream_calls' = upstream_calls + 1
    /\ pc' = "waiting"
    /\ UNCHANGED <<status, response, num_responses>>

\* a slip that returns no 400 when no identifier is extracted
get_transcript_unchecked(q, lang, fmt) ==
    /\ pc = "idle"
    /\ endpoint' = "transcript"
    /\ has_url' = q.has_url
    /\ video_url' = q.url
    /\ language' = lang
    /\ format_type' = fmt
    /\ IF ~q.has_url \/ q.url = "" THEN
           /\ video_id' = video_id
           /\ Respond(400, [success |-> FALSE,
                            error |-> "URL parameter is required",
                            example |-> "/transcript?url=https://www.youtube.com/watch?v=VIDEO_ID"])
           /\ UNCHANGED upstream_calls
       ELSE
           /\ video_id' = extract_video_id(q.url)
           /\ CallUpstream
    /\ UNCHANGED <<upstream_result, xvars>>

\* GET /transcript up to CustomYouTubeTranscriptApi.get_transcript(...)
get_transcript(q, lang, fmt) ==
    /\ pc = "idle"
    /\ endpoint' = "transcript"
    /\ has_url' = q.has_url
    /\ video_url' = q.url
    /\ language' = lang
    /\ format_type' = fmt
    /\ IF ~q.has_url \/ q.url = "" THEN
           /\ video_id' = video_id
           /\ Respond(400, [success |-> FALSE,
                            error |-> "URL parameter is required",
                            example |-> "/transcript?url=https://www.youtube.com/watch?v=VIDEO_ID"])
           /\ UNCHANGED upstream_calls
       ELSE IF extract_video_id(q.url) = None THEN
           /\ video_id' = None
           /\ Respond(400, [success |-> FALSE,
                            error |-> "Invalid YouTube URL format",
                            provided_url |-> q.url])
           /\ UNCHANGED upstream_calls
       ELSE
           /\ video_id' = extract_video_id(q.url)
           /\ CallUpstream
    /\ UNCHANGED <<upstream_result, xvars>>

\* the upstream call returns transcript_list: format, respond 200
get_transcript_returns ==
    /\ pc = "waiting"
    /\ endpoint = "transcript"
    /\ \E transcript_list \in TranscriptLists :
        /\ upstream_result' = [kind |-> "ok", value |-> transcript_list]
        /\ IF format_type = "text"
           THEN Respond(200, text_response(transcript_list))
           ELSE Respond(200, json_response(transcript_list))
        /\ UNCHANGED <<endpoint, has_url, video_url, language, format_type, video_id,
                       upstream_calls, xvars>>

\* a slip that issues the call again when it fails
get_transcript_raises_retry ==
    /\ pc = "waiting"
    /\ endpoint = "transcript"
    /\ \E error_message \in ErrorMessages :
        /\ upstream_result' = [kind |-> "error", message |-> error_message]
        /\ CallUpstream
        /\ UNCHANGED <<endpoint, has_url, video_url, language, format_type, video_id, xvars>>

\* the upstream call raises: the except branch classifies str(e) and responds
get_transcript_raises ==
    /\ pc = "waiting"
    /\ endpoint = "transcript"
    /\ \E error_message \in ErrorMessages :
        /\ upstream_result' = [kind |-> "error", message |-> error_message]
        /\ Respond(error_response(error_message).status, error_response(error_message).body)
        /\ UNCHANGED <<endpoint, has_url, video_url, language, format_type, video_id,
                       upstream_calls, xvars>>

\* GET /transcript/languages up to CustomYouTubeTranscriptApi.list_transcripts(video_id)
get_available_languages(q) ==
    /\ pc = "idle"
    /\ endpoint' = "languages"
    /\ has_url' = q.has_url
    /\ video_url' = q.url
    /\ UNCHANGED <<language, format_type>>
    /\ IF ~q.has_url \/ q.url = "" THEN
           /\ video_id' = video_id
           /\ Respond(400, [success |-> FALSE,
                            error |-> "URL parameter is required",
                            example |-> "/transcript/languages?url=https://www.youtube.com/watch?v=VIDEO_ID"])
           /\ UNCHANGED upstream_calls
       ELSE IF extract_video_id(q.url) = None THEN
           /\ video_id' = None
           /\ Respond(400, [success |-> FALSE,
                            error |-> "Invalid YouTube URL format",
                            provided_url |-> q.url])
           /\ UNCHANGED upstream_calls
       ELSE
           /\ video_id' = extract_video_id(q.url)
           /\ CallUpstream
    /\ UNCHANGED <<upstream_result, xvars>>

\* languages.append({...}) for each transcript of the listing
languages_of(transcript_list) ==
    [i \in 1..Len(transcript_list) |->
        [language |-> transcript_list[i].language,
         language_code |-> transcript_list[i].language_code,
         is_generated |-> transcript_list[i].is_generated,
         is_translatable |-> transcript_list[i].is_translatable]]

\* the listing call returns: project the tracks, respond 200
get_available_languages_returns ==
    /\ pc = "waiting"
    /\ endpoint = "languages"
    /\ \E transcript_list \in TrackLists :
        /\ upstream_result' = [kind |-> "ok", value |-> transcript_list]
        /\ Respond(200, [success |-> TRUE,
                         video_id |-> video_id,
                         available_languages |-> languages_of(transcript_list),
                         total_languages |-> Len(languages_of(transcript_list))])
        /\ UNCHANGED <<endpoint, has_url, video_url, language, format_type, video_id,
                       upstream_calls, xvars>>

\* a slip that applies the classification table of /transcript to the listing
get_available_languages_raises_classified ==
    /\ pc = "waiting"
    /\ endpoint = "languages"
    /\ \E error_message \in ErrorMessages :
        /\ upstream_result' = [kind |-> "error", message |-> error_message]
        /\ Respond(error_response(error_message).status, error_response(error_message).body)
        /\ UNCHANGED <<endpoint, has_url, video_url, language, format_type, video_id,
                       upstream_calls, xvars>>

\* the listing call raises: the except branch responds 500
get_available_languages_raises ==
    /\ pc = "waiting"
    /\ endpoint = "languages"
    /\ \E error_message \in ErrorMessages :
        /\ upstream_result' = [kind |-> "error", message |-> error_message]
        /\ Respond(500, [success |-> FALSE,
                         error |-> error_message,
                         error_type |-> "language_fetch_error",
                         debug_info |-> "This might be a regional restriction or server IP blocking issue"])
        /\ UNCHANGED <<endpoint, has_url, video_url, language, format_type, video_id,
                       upstream_calls, xvars>>

Init ==
    /\ pc = "idle"
    /\ endpoint = "none"
    /\ has_url = FALSE
    /\ video_url = None
    /\ language = "en"
    /\ format_type = "json"
    /\ video_id = Unbound
    /\ upstream_calls = 0
    /\ upstream_result = NoResult
    /\ num_responses = 0
    /\ status = 0
    /\ response = NoResponse
    /\ xpc = "ready"
    /\ arg_url = ""
    /\ ret = None

Next ==
    \/ \E q \in Queries, lang \in Languages, fmt \in Formats : get_transcript(q, lang, fmt)
    \/ get_transcript_returns
    \/ get_transcript_raises
    \/ \E q \in Queries : get_available_languages(q)
    \/ get_available_languages_returns
    \/ get_available_languages_raises

Spec == Init /\ [][Next]_vars

(***************************************************************************)
(* extract_video_id on its own: the URL is drawn at the start, the call    *)
(* returns its result.                                                     *)
(***************************************************************************)
InitExtract ==
    /\ pc = "idle"
    /\ endpoint = "none"
    /\ has_url = FALSE
    /\ video_url = None
    /\ language = "en"
    /\ format_type = "json"
    /\ video_id = Unbound
    /\ upstream_calls = 0
    /\ upstream_result = NoResult
    /\ num_responses = 0
    /\ status = 0
    /\ response = NoResponse
    /\ xpc = "ready"
    /\ arg_url \in UrlInputs
    /\ ret = None

CallExtract ==
    /\ xpc = "ready"
    /\ ret' = extract_video_id(arg_url)
    /\ xpc' = "returned"
    /\ UNCHANGED <<arg_url, hvars>>

NextExtract == CallExtract

SpecExtract == InitExtract /\ [][NextExtract]_vars

(***************************************************************************)
(* Properties.                                                             *)
(***************************************************************************)
\* the request of the current state passed the url validation
Validated == has_url /\ video_url # "" /\ extract_video_id(video_url) # None

UpstreamFailed == upstream_result # NoResult /\ upstream_result.kind = "error"
UpstreamReturned == upstream_result # NoResult /\ upstream_result.kind = "ok"

\* C1: on both routes a request whose url is missing, empty or yields no
\* identifier ends with status 400 and success=false, and no upstream call is
\* issued while it is handled.
C1_BadUrlIs400WithoutUpstreamCall ==
    (endpoint # "none" /\ ~Validated) =>
        /\ pc = "done"
        /\ status = 400
        /\ response.success = FALSE
        /\ num_responses = 1
        /\ upstream_calls = 0
        /\ upstream_result = NoResult

W_C1 ==
    /\ pc = "done"
    /\ endpoint = "languages"
    /\ video_url = "https://youtu.be/dQw4w9WgXc"
    /\ status = 400
    /\ upstream_calls = 0

\* C2: on /transcript an upstream failure is classified by the first row of
\* the table (No transcripts were found, Video unavailable, Subtitles are
\* disabled) whose substring occurs in the message, and as unknown/500 when
\* none does.
C2_FirstMatchingRowClassifies ==
    (pc = "done" /\ endpoint = "transcript" /\ UpstreamFailed) =>
        LET rows == << [sub |-> "No transcripts were found", kind |-> "no_transcript", code |-> 404],
                       [sub |-> "Video unavailable", kind |-> "unavailable", code |-> 404],
                       [sub |-> "Subtitles are disabled", kind |-> "subtitles_disabled", code |-> 404] >>
            hits == {i \in 1..3 : Contains(upstream_result.message, rows[i].sub)}
        IN  IF hits = {}
            THEN response.error_type = "unknown" /\ status = 500
            ELSE response.error_type = rows[Min(hits)].kind /\ status = rows[Min(hits)].code

W_C2 ==
    /\ pc = "done"
    /\ endpoint = "transcript"
    /\ UpstreamFailed
    /\ upstream_result.message = "Video unavailable" \o "No transcripts were found"
    /\ response.error_type = "no_transcript"
    /\ status = 404

\* C3: on /transcript every failure response given after the identifier was
\* extracted (404 or 500, any error kind) carries that identifier in video_id.
C3_FailureCarriesVideoId ==
    (pc = "done" /\ endpoint = "transcript" /\ UpstreamFailed) =>
        /\ status \in {404, 500}
        /\ "video_id" \in DOMAIN response
        /\ response.video_id = video_id

\* C4: extract_video_id returns None for the empty string, for a non-YouTube
\* URL and for a URL whose candidate segment is not exactly 11 characters long.
C4_NotFoundOnBadUrls ==
    (xpc = "returned" /\ (arg_url = "" \/ arg_url \in NonYouTubeUrls \/ arg_url \in WrongLengthUrls)) =>
        ret = None

\* C5: for every recognized URL shape carrying the 11-character identifier x,
\* whatever parameters precede or follow it, extract_video_id returns x.
C5_RecognizedShapeYieldsItsId ==
    xpc = "returned" => \A x \in Ids : arg_url \in RecognizedUrls(x) => ret = x

\* C6: a success response of /transcript, in text and in json mode, has
\* duration_seconds = start + duration of the last segment, or 0 for an empty
\* segment sequence, which also yields a success response.
C6_DurationIsEndOfLastSegment ==
    (pc = "done" /\ endpoint = "transcript" /\ UpstreamReturned) =>
        LET segs == upstream_result.value
        IN  /\ status = 200
            /\ response.success = TRUE
            /\ response.format = (IF format_type = "text" THEN "text" ELSE "json")
            /\ response.duration_seconds =
                   (IF Len(segs) = 0 THEN 0 ELSE segs[Len(segs)].start + segs[Len(segs)].duration)

W_C6 ==
    /\ pc = "done"
    /\ endpoint = "transcript"
    /\ UpstreamReturned
    /\ format_type = "text"
    /\ Len(upstream_result.value) = 2
    /\ upstream_result.value[1].start = 0
    /\ upstream_result.value[1].duration = 0
    /\ response.duration_seconds = 2

\* C7: a request that passed the url validation has issued exactly one upstream
\* call, never more; when it ends it has given exactly one response, a failure
\* one if the call failed and a success one if the call returned.
C7_OneCallOneResponse ==
    /\ pc = "waiting" =>
           /\ Validated
           /\ upstream_calls = 1
           /\ num_responses = 0
           /\ upstream_result = NoResult
    /\ pc = "done" => num_responses = 1
    /\ (pc = "done" /\ Validated) =>
           /\ upstream_calls = 1
           /\ upstream_result # NoResult
           /\ response.success = (upstream_result.kind = "ok")

W_C7 ==
    /\ pc = "done"
    /\ Validated
    /\ UpstreamFailed
    /\ upstream_calls = 1
    /\ num_responses = 1
    /\ response.success = FALSE

\* C8: on /transcript/languages every upstream failure, whatever its message,
\* gives status 500 with success=false and error_type language_fetch_error.
C8_ListingFailureIs500 ==
    (pc = "done" /\ endpoint = "languages" /\ UpstreamFailed) =>
        /\ status = 500
        /\ response.success = FALSE
        /\ response.error_type = "language_fetch_error"
        /\ response.error = upstream_result.message

W_C8 ==
    /\ pc = "done"
    /\ endpoint = "languages"
    /\ UpstreamFailed
    /\ Contains(upstream_result.message, "Video unavailable")
    /\ status = 500

\* the identifier following the earlier of the first "embed/" and the first "v="
EarlierOfEmbedAndQuery(url) ==
    LET e == Min(MatchPositions(<<"embed/">>, url)) + Len("embed/")
        v == Min(MatchPositions(<<"v=">>, url)) + Len("v=")
        j == IF e < v THEN e ELSE v
    IN  SubSeq(url, j, j + IdLen - 1)

HasEmbedAndQuery(url) ==
    MatchPositions(<<"embed/">>, url) # {} /\ MatchPositions(<<"v=">>, url) # {}

\* no "/" followed by 11 identifier characters occurs before both identifiers
NothingEarlier(url) ==
    Min(MatchPositions(patterns[1], url)) \in
        {Min(MatchPositions(<<"embed/">>, url)) + Len("embed"), Min(MatchPositions(<<"v=">>, url))}

FirstPatternDecides ==
    /\ ret = re_search(patterns[1], arg_url)
    /\ \A k \in 2..Len(patterns) :
           re_search(patterns[k], arg_url) # None => re_search(patterns[1], arg_url) # None

C10_WordCountsAgree ==
    (pc = "done" /\ endpoint = "transcript" /\ UpstreamReturned) =>
        response.word_count =
            (IF response.format = "text"
             THEN json_response(upstream_result.value).word_count
             ELSE text_response(upstream_result.value).word_count)

W_C10 ==
    /\ pc = "done"
    /\ endpoint = "transcript"
    /\ UpstreamReturned
    /\ response.format = "text"
    /\ Len(upstream_result.value) = 2
    /\ upstream_result.value[1].text = " a\nb\t"
    /\ upstream_result.value[2].text = "big world"
    /\ response.word_count = 4

====
